---- MODULE Spec2Model ----
(***************************************************************************)
(* Annotation and compositing engine of the screenshot annotator           *)
(* (src/app.js).  The file holds two revisions of the application; lines   *)
(* 1-1029 are the snapshot-based ("refactored") revision modelled by Spec. *)
(*                                                                         *)
(* Lengths and coordinates are integers counted in half pixels, so that    *)
(* the fractional positions getCanvasMousePosition produces and the        *)
(* Math.floor calls of applyBlurEffect are represented.  A canvas pixel    *)
(* (px, py) covers [2px, 2px+2) x [2py, 2py+2); its centre is              *)
(* (2px+1, 2py+1).  The browser's rasteriser is abstracted to coverage of  *)
(* pixel centres, without anti-aliasing.                                   *)
(***************************************************************************)
EXTENDS Integers, Sequences, FiniteSets, TLC

\* ------------------------------------------------------------------ bounds
W == 10
H == 2
NumImages == 2
MaxAnnotations == 2
MaxLoading == 2
MaxSteps == 8
MaxSteps2 == 10
MaxFilterWidth == 17
MaxFilterHeight == 9
MaxFilterStroke == 6

\* ------------------------------------------------------- program constants
MinPixelSize == 8
PreviewLineWidth == 2
PreviewDash == 5
FontScale == 5

DefaultTool == "arrow"
DefaultColor == "#FF4D4F"
OtherColor == "#1890ff"
DefaultStrokeWidth == 3
WideStrokeWidth == 5

Tools == {"arrow", "rect", "circle", "highlight", "blur", "text"}
Colors == {DefaultColor, OtherColor}
StrokeWidths == {DefaultStrokeWidth, WideStrokeWidth}
Images == 1..NumImages
NoImage == 0

\* --------------------------------------------------------------- arithmetic
Min(a, b) == IF a < b THEN a ELSE b
Max(a, b) == IF a > b THEN a ELSE b
Abs(a) == IF a < 0 THEN -a ELSE a
Px(n) == 2 * n
Floor(h) == h \div 2

\* NaN, the coordinate getCanvasMousePosition computes from an event that
\* has no clientX/clientY.  It is represented by a reserved integer outside
\* the range of every position; the operators that compute with a stored
\* coordinate test for it first, since arithmetic on NaN gives NaN and every
\* comparison with NaN is false.
NaN == -1000
IsNaN(v) == v = NaN

RECURSIVE ISqrtFrom(_, _)
ISqrtFrom(n, r) == IF (r + 1) * (r + 1) > n THEN r ELSE ISqrtFrom(n, r + 1)
ISqrt(n) == ISqrtFrom(n, 0)

\* ------------------------------------------------------------------ pixels
NPix == W * H
PixIdx == 1..NPix
PX(i) == (i - 1) % W
PY(i) == (i - 1) \div W
Idx(px, py) == py * W + px + 1
CX(i) == Px(PX(i)) + 1
CY(i) == Px(PY(i)) + 1

NoData == << >>
Clear == <<"clear">>
BasePixel(img, i) == <<"px", img, i>>
Ink(c) == <<"ink", c>>
Mix(paint, under) == <<"mix", paint, "over", under>>

ClearRect == [i \in PixIdx |-> Clear]
DrawImage(img) == [i \in PixIdx |-> BasePixel(img, i)]

\* ------------------------------------------------------- shape renderer
\* Squared distance between two points.
Dist2(ax, ay, bx, by) == (ax - bx) * (ax - bx) + (ay - by) * (ay - by)

\* Is (cx, cy) within distance hw of the segment (x1,y1)-(x2,y2)?
NearSegment(cx, cy, x1, y1, x2, y2, hw) ==
    LET dx == x2 - x1
        dy == y2 - y1
        len2 == dx * dx + dy * dy
        t == (cx - x1) * dx + (cy - y1) * dy
        cross == (cx - x1) * dy - (cy - y1) * dx
    IN  IF t <= 0 THEN Dist2(cx, cy, x1, y1) <= hw * hw
        ELSE IF t >= len2 THEN Dist2(cx, cy, x2, y2) <= hw * hw
        ELSE cross * cross <= hw * hw * len2

\* drawArrow: the shaft, and the open head whose two strokes leave the end
\* point (the round cap around the end point is what the model keeps of it).
\* A zero-length shaft draws nothing; the head is drawn in every case.
CoversArrow(cx, cy, x1, y1, x2, y2, hw) ==
    \/ (x1 # x2 \/ y1 # y2) /\ NearSegment(cx, cy, x1, y1, x2, y2, hw)
    \/ Dist2(cx, cy, x2, y2) <= hw * hw

\* strokeRect(x, y, w, h): nothing when w and h are both zero.
CoversStrokeRect(cx, cy, x1, y1, x2, y2, hw) ==
    LET xa == Min(x1, x2)
        xb == Max(x1, x2)
        ya == Min(y1, y2)
        yb == Max(y1, y2)
    IN  /\ (x1 # x2 \/ y1 # y2)
        /\ xa - hw <= cx /\ cx <= xb + hw
        /\ ya - hw <= cy /\ cy <= yb + hw
        /\ ~ (/\ xa + hw < cx /\ cx < xb - hw
              /\ ya + hw < cy /\ cy < yb - hw)

\* arc(x1, y1, radius, 0, 2*PI) stroked; radius is the distance start-end.
CoversCircle(cx, cy, x1, y1, x2, y2, hw) ==
    LET radius == ISqrt(Dist2(x1, y1, x2, y2))
        d2 == Dist2(cx, cy, x1, y1)
        inner == Max(0, radius - hw)
    IN  /\ radius > 0
        /\ inner * inner <= d2
        /\ d2 <= (radius + hw) * (radius + hw)

\* fillRect(x, y, w, h): nothing when w or h is zero.
CoversFillRect(cx, cy, x1, y1, x2, y2) ==
    /\ Min(x1, x2) <= cx /\ cx < Max(x1, x2)
    /\ Min(y1, y2) <= cy /\ cy < Max(y1, y2)

\* fillText(text, x, y): glyph boxes of half an em per character, standing
\* on the baseline y.
CoversText(cx, cy, x, y, len, fontSize) ==
    /\ x <= cx /\ cx < x + len * fontSize
    /\ y - Px(fontSize) <= cy /\ cy < y

drawArrow(surf, x1, y1, x2, y2, color, lineWidth) ==
    [i \in PixIdx |->
        IF CoversArrow(CX(i), CY(i), x1, y1, x2, y2, lineWidth)
        THEN Ink(color) ELSE surf[i]]

drawRect(surf, x1, y1, x2, y2, color, lineWidth) ==
    [i \in PixIdx |->
        IF CoversStrokeRect(CX(i), CY(i), x1, y1, x2, y2, lineWidth)
        THEN Ink(color) ELSE surf[i]]

drawCircle(surf, x1, y1, x2, y2, color, lineWidth) ==
    [i \in PixIdx |->
        IF CoversCircle(CX(i), CY(i), x1, y1, x2, y2, lineWidth)
        THEN Ink(color) ELSE surf[i]]

\* fillStyle is the colour with the alpha suffix "40" appended.
drawHighlight(surf, x1, y1, x2, y2, color) ==
    [i \in PixIdx |->
        IF CoversFillRect(CX(i), CY(i), x1, y1, x2, y2)
        THEN Mix(<<color, "40">>, surf[i]) ELSE surf[i]]

\* Position along the dashed outline of the pixel centre, for each of the
\* four edges in path order; the dash is on for PreviewDash px, off for
\* PreviewDash px.
DashOn(t) == t % Px(2 * PreviewDash) < Px(PreviewDash)
Clamp(v, a, b) == Max(Min(a, b), Min(v, Max(a, b)))

CoversDashedRect(cx, cy, x1, y1, x2, y2, hw) ==
    LET w == Abs(x2 - x1)
        h == Abs(y2 - y1)
        inX == Min(x1, x2) - hw <= cx /\ cx <= Max(x1, x2) + hw
        inY == Min(y1, y2) - hw <= cy /\ cy <= Max(y1, y2) + hw
    IN  /\ (w # 0 \/ h # 0)
        /\ \/ inX /\ Abs(cy - y1) <= hw /\ DashOn(Abs(Clamp(cx, x1, x2) - x1))
           \/ inY /\ Abs(cx - x2) <= hw /\ DashOn(w + Abs(Clamp(cy, y1, y2) - y1))
           \/ inX /\ Abs(cy - y2) <= hw /\ DashOn(w + h + Abs(Clamp(cx, x1, x2) - x2))
           \/ inY /\ Abs(cx - x1) <= hw /\ DashOn(2 * w + h + Abs(Clamp(cy, y1, y2) - y2))

drawBlurPreview(surf, x1, y1, x2, y2) ==
    [i \in PixIdx |->
        IF CoversDashedRect(CX(i), CY(i), x1, y1, x2, y2, PreviewLineWidth)
        THEN Ink("#999999")
        ELSE IF CoversFillRect(CX(i), CY(i), x1, y1, x2, y2)
        THEN Mix("rgba(150, 150, 150, 0.5)", surf[i])
        ELSE surf[i]]

\* ---------------------------------------------------- pixelation filter
\* One block of applyBlurEffect's loops: every pixel of the block with
\* local origin (px, py), clipped to the safe rectangle, takes the value
\* read at the block's origin.
BlurBlock(data, safeX, safeY, safeWidth, safeHeight, px, py, pixelSize) ==
    [i \in PixIdx |->
        IF /\ safeX + px <= PX(i)
           /\ PX(i) < safeX + Min(px + pixelSize, safeWidth)
           /\ safeY + py <= PY(i)
           /\ PY(i) < safeY + Min(py + pixelSize, safeHeight)
        THEN data[Idx(safeX + px, safeY + py)]
        ELSE data[i]]

RECURSIVE BlurCols(_, _, _, _, _, _, _, _)
BlurCols(data, safeX, safeY, safeWidth, safeHeight, px, py, pixelSize) ==
    IF px < safeWidth
    THEN BlurCols(BlurBlock(data, safeX, safeY, safeWidth, safeHeight,
                            px, py, pixelSize),
                  safeX, safeY, safeWidth, safeHeight,
                  px + pixelSize, py, pixelSize)
    ELSE data

RECURSIVE BlurRows(_, _, _, _, _, _, _)
BlurRows(data, safeX, safeY, safeWidth, safeHeight, py, pixelSize) ==
    IF py < safeHeight
    THEN BlurRows(BlurCols(data, safeX, safeY, safeWidth, safeHeight,
                           0, py, pixelSize),
                  safeX, safeY, safeWidth, safeHeight,
                  py + pixelSize, pixelSize)
    ELSE data

\* Mutant of PixelSize: the stroke width is not doubled.
PixelSizeNotDoubled(sw) == Max(MinPixelSize, sw)

PixelSize(sw) == Max(MinPixelSize, sw * 2)

\* applyBlurEffect(x, y, width, height) on the surface surf; sw is the
\* value of state.strokeWidth when the function runs.  throws: getImageData
\* or putImageData throws; the catch block logs the error and the canvas
\* is as it was.
applyBlurEffect(surf, x, y, width, height, sw, throws) ==
    IF width < Px(1) \/ height < Px(1) THEN surf
    ELSE LET safeX == Max(0, Floor(Min(x, Px(W - 1))))
             safeY == Max(0, Floor(Min(y, Px(H - 1))))
             safeWidth == Floor(Min(width, Px(W - safeX)))
             safeHeight == Floor(Min(height, Px(H - safeY)))
         IN  IF safeWidth < 1 \/ safeHeight < 1 THEN surf
             ELSE IF throws THEN surf
             ELSE BlurRows(surf, safeX, safeY, safeWidth, safeHeight,
                           0, PixelSize(sw))

\* The safe rectangle of applyBlurEffect for the blur annotation a, and the
\* origin of the block a pixel of it lies in.
SafeX(a) == Max(0, Floor(Min(Min(a.startX, a.endX), Px(W - 1))))
SafeY(a) == Max(0, Floor(Min(Min(a.startY, a.endY), Px(H - 1))))
SafeWidth(a) == Floor(Min(Abs(a.endX - a.startX), Px(W - SafeX(a))))
SafeHeight(a) == Floor(Min(Abs(a.endY - a.startY), Px(H - SafeY(a))))
InSafeRect(a, i) ==
    /\ SafeX(a) <= PX(i) /\ PX(i) < SafeX(a) + SafeWidth(a)
    /\ SafeY(a) <= PY(i) /\ PY(i) < SafeY(a) + SafeHeight(a)
BlockOrigin(a, i, p) ==
    Idx(SafeX(a) + ((PX(i) - SafeX(a)) \div p) * p,
        SafeY(a) + ((PY(i) - SafeY(a)) \div p) * p)

\* ---------------------------------------------------- compositing engine
drawTextAnnotation(surf, a) ==
    IF "text" \in DOMAIN a
    THEN [i \in PixIdx |->
            IF CoversText(CX(i), CY(i), a.x, a.y, Len(a.text), a.fontSize)
            THEN Ink(a.color) ELSE surf[i]]
    ELSE surf

\* Has the drag annotation a a NaN end point?
HasNaN(a) == "endX" \in DOMAIN a /\ (IsNaN(a.endX) \/ IsNaN(a.endY))

\* The body of the forEach of redrawCanvas for one annotation.  The path
\* and rectangle methods of the canvas ignore a call with a non-finite
\* argument, so an annotation with a NaN end point draws nothing.
RenderAnnotation(surf, a, sw, throws) ==
    IF HasNaN(a) THEN surf
    ELSE IF a.tool = "blur"
    THEN applyBlurEffect(surf,
                         Min(a.startX, a.endX), Min(a.startY, a.endY),
                         Abs(a.endX - a.startX), Abs(a.endY - a.startY), sw,
                         throws)
    ELSE CASE a.tool = "arrow" ->
                drawArrow(surf, a.startX, a.startY, a.endX, a.endY,
                          a.color, a.strokeWidth)
           [] a.tool = "rect" ->
                drawRect(surf, a.startX, a.startY, a.endX, a.endY,
                         a.color, a.strokeWidth)
           [] a.tool = "circle" ->
                drawCircle(surf, a.startX, a.startY, a.endX, a.endY,
                           a.color, a.strokeWidth)
           [] a.tool = "highlight" ->
                drawHighlight(surf, a.startX, a.startY, a.endX, a.endY,
                              a.color)
           [] a.tool = "text" -> drawTextAnnotation(surf, a)

RECURSIVE RenderFrom(_, _, _, _, _)
RenderFrom(surf, anns, k, sw, throws) ==
    IF k > Len(anns) THEN surf
    ELSE RenderFrom(RenderAnnotation(surf, anns[k], sw, throws), anns, k + 1,
                    sw, throws)

\* ctx.clearRect(0, 0, width, height) on the canvas holding surf.
clearRect(surf) == [i \in PixIdx |-> Clear]

\* ctx.drawImage(img, 0, 0) on the canvas holding surf; the canvas has the
\* size of the image.
drawImage(surf, img) == [i \in PixIdx |-> BasePixel(img, i)]

\* Mutant of redrawCanvas: the store is replayed onto the canvas as it is,
\* without clearing it and drawing the base image first.
redrawCanvasNoReset(surf, anns, base, sw, throws) ==
    RenderFrom(surf, anns, 1, sw, throws)

\* Mutant of redrawCanvas: the store is replayed from the last annotation
\* to the first.
redrawCanvasReversed(surf, anns, base, sw, throws) ==
    RenderFrom(IF base # NoImage THEN drawImage(clearRect(surf), base)
               ELSE clearRect(surf),
               [j \in 1..Len(anns) |-> anns[Len(anns) + 1 - j]], 1, sw,
               throws)

\* redrawCanvas() on the canvas holding surf, for the store anns, the base
\* image base and the current state.strokeWidth sw.  throws: the pixel
\* operations of applyBlurEffect throw during this call.
redrawCanvas(surf, anns, base, sw, throws) ==
    RenderFrom(IF base # NoImage THEN drawImage(clearRect(surf), base)
               ELSE clearRect(surf),
               anns, 1, sw, throws)

\* ------------------------------------------------------------ text input
\* Texts are sequences of one-character strings.
RECURSIVE TrimLeft(_)
TrimLeft(t) ==
    IF t # << >> /\ Head(t) = " " THEN TrimLeft(Tail(t)) ELSE t

RECURSIVE TrimRight(_)
TrimRight(t) ==
    IF t # << >> /\ t[Len(t)] = " "
    THEN TrimRight(SubSeq(t, 1, Len(t) - 1)) ELSE t

Trim(t) == TrimRight(TrimLeft(t))

EscapeChar(c) ==
    CASE c = "&" -> <<"&", "a", "m", "p", ";">>
      [] c = "<" -> <<"&", "l", "t", ";">>
      [] c = ">" -> <<"&", "g", "t", ";">>
      [] OTHER -> <<c>>

\* Mutant of sanitizeInput: the input is returned as typed.
sanitizeInputRaw(input) == input

\* sanitizeInput: textContent in, innerHTML out.
RECURSIVE sanitizeInput(_)
sanitizeInput(input) ==
    IF input = << >> THEN << >>
    ELSE EscapeChar(Head(input)) \o sanitizeInput(Tail(input))

\* ---------------------------------------------------------------- inputs
\* Pointer positions delivered by getCanvasMousePosition, in half pixels:
\* the top-left corner, the centre of the bottom-right pixel, and (for
\* mouseleave) a point two pixels outside the canvas, above and left of it.
Corner == <<0, 0>>
Far == <<Px(W) - 1, Px(H) - 1>>
Outside == <<-Px(2), -Px(2)>>
DownPoints == {Corner, Far}
MovePoints == {Far}
UpPoints == {Corner, Far, Outside}

\* Values typed into the text prompt.
TextInputs == { << >>, <<" ">>, <<" ", "a">>, <<"<", "&", ">">> }

\* ----------------------------------------------------------------- state
VARIABLES
    currentTool, currentColor, strokeWidth,   \* state.currentTool, ...
    isDrawing, startX, startY,                \* gesture state
    annotations,                              \* state.annotations
    baseImage,                                \* state.baseImage (NoImage: null)
    surface,                                  \* pixels of state.canvas
    tempBlurBackup,                           \* state.tempBlurBackup
    tempTextX, tempTextY,                     \* anchor of the text prompt
    textModalOpen,                            \* text modal shown
    undoBtnDisabled,                          \* elements.undoBtn.disabled
    editorHidden,                             \* editor section hidden
    loading,                                  \* images whose onload is pending
    lastRequested,                            \* history: image of the last load requested
                                              \* while a load is pending
    filter,                                   \* loop state of a pixelation run
    lastOp,                                   \* history: the last handler that acted
    preGesture,                               \* history: surface when the last
                                              \* gesture (or text commit) began
    prevAnnotations,                          \* history: the store before the
                                              \* last handler acted
    lastRaw,                                  \* history: the input the last
                                              \* handler read (the text typed
                                              \* or the pointer position)
    caught,                                   \* history: the last handler ran
                                              \* applyBlurEffect's catch block
    steps                                     \* history: number of handlers run

vars == <<currentTool, currentColor, strokeWidth, isDrawing, startX, startY,
          annotations, baseImage, surface, tempBlurBackup, tempTextX,
          tempTextY, textModalOpen, undoBtnDisabled, editorHidden, loading,
          lastRequested, filter, lastOp, preGesture, prevAnnotations,
          lastRaw, caught, steps>>

styleVars == <<currentTool, currentColor, strokeWidth>>
textVars == <<tempTextX, tempTextY, textModalOpen>>

Init ==
    /\ currentTool = DefaultTool
    /\ currentColor = DefaultColor
    /\ strokeWidth = DefaultStrokeWidth
    /\ isDrawing = FALSE
    /\ startX = 0
    /\ startY = 0
    /\ annotations = << >>
    /\ baseImage = NoImage
    /\ surface = ClearRect
    /\ tempBlurBackup = NoData
    /\ tempTextX = 0
    /\ tempTextY = 0
    /\ textModalOpen = FALSE
    /\ undoBtnDisabled \in BOOLEAN
    /\ editorHidden = TRUE
    /\ loading = << >>
    /\ lastRequested = NoImage
    /\ filter = NoData
    /\ lastOp = "init"
    /\ preGesture = NoData
    /\ prevAnnotations = << >>
    /\ lastRaw = NoData
    /\ caught = FALSE
    /\ steps = 0

\* updateUndoButton() for the store anns.
updateUndoButton(anns) == Len(anns) = 0

\* A handler named op has acted; pre is the surface its gesture began on.
\* Runs of more than MaxSteps handlers are not explored.
Bounded == steps < MaxSteps

RecordCaught(op, pre, raw, thrown) ==
    /\ steps' = steps + 1
    /\ lastOp' = op
    /\ preGesture' = pre
    /\ prevAnnotations' = annotations
    /\ lastRaw' = raw
    /\ caught' = thrown
    /\ IF op \in {"request", "load"} THEN TRUE ELSE UNCHANGED lastRequested
    /\ UNCHANGED filter

RecordInput(op, pre, raw) == RecordCaught(op, pre, raw, FALSE)

Record(op, pre) == RecordInput(op, pre, NoData)

\* Does applyBlurEffect reach its pixel operations for the annotation a,
\* and a recomposite for some annotation of the store anns?  Only then can
\* they throw.
ReachesPixels(a) ==
    /\ a.tool = "blur"
    /\ ~HasNaN(a)
    /\ Abs(a.endX - a.startX) >= Px(1)
    /\ Abs(a.endY - a.startY) >= Px(1)
    /\ SafeWidth(a) >= 1
    /\ SafeHeight(a) >= 1
BlurRuns(anns) == \E k \in DOMAIN anns : ReachesPixels(anns[k])

\* The history variable preGesture is kept only while a gesture is under
\* way or has just been committed, and only as long as the base image it
\* began on is in place.
Forget(op) == Record(op, IF isDrawing' THEN preGesture ELSE NoData)

\* ------------------------------------------------------- style selection
selectTool(tool) ==
    /\ Bounded
    /\ currentTool' = tool
    /\ UNCHANGED <<currentColor, strokeWidth, isDrawing, startX, startY,
                   annotations, baseImage, surface, tempBlurBackup, textVars,
                   undoBtnDisabled, editorHidden, loading>>
    /\ Forget("style")

\* Mutant of SetColor: the stored annotations take the new colour too.
SetColorRecolours(c) ==
    /\ Bounded
    /\ currentColor' = c
    /\ annotations' = [k \in DOMAIN annotations |->
                          [annotations[k] EXCEPT !.color = c]]
    /\ UNCHANGED <<currentTool, strokeWidth, isDrawing, startX, startY,
                   baseImage, surface, tempBlurBackup, textVars,
                   undoBtnDisabled, editorHidden, loading>>
    /\ Forget("style")

SetColor(c) ==
    /\ Bounded
    /\ currentColor' = c
    /\ UNCHANGED <<currentTool, strokeWidth, isDrawing, startX, startY,
                   annotations, baseImage, surface, tempBlurBackup, textVars,
                   undoBtnDisabled, editorHidden, loading>>
    /\ Forget("style")

SetStrokeWidth(n) ==
    /\ Bounded
    /\ strokeWidth' = n
    /\ UNCHANGED <<currentTool, currentColor, isDrawing, startX, startY,
                   annotations, baseImage, surface, tempBlurBackup, textVars,
                   undoBtnDisabled, editorHidden, loading>>
    /\ Forget("style")

\* ------------------------------------------------------------ image load
\* loadImageToEditor(dataURL): creates the Image; its onload runs later.
loadImageToEditor(img) ==
    /\ Bounded
    /\ Len(loading) < MaxLoading
    /\ loading' = Append(loading, img)
    /\ lastRequested' = img
    /\ UNCHANGED <<styleVars, isDrawing, startX, startY, annotations,
                   baseImage, surface, tempBlurBackup, textVars,
                   undoBtnDisabled, editorHidden>>
    /\ Forget("request")

\* Mutant of ImgOnload: the store of the previous image is kept.
ImgOnloadKeepsStore(k) ==
    /\ Bounded
    /\ k \in 1..Len(loading)
    /\ surface' = DrawImage(loading[k])
    /\ baseImage' = loading[k]
    /\ editorHidden' = FALSE
    /\ undoBtnDisabled' = updateUndoButton(annotations)
    /\ loading' = [j \in 1..(Len(loading) - 1) |->
                     IF j < k THEN loading[j] ELSE loading[j + 1]]
    /\ lastRequested' = IF Len(loading) = 1 THEN NoImage ELSE lastRequested
    /\ UNCHANGED <<styleVars, isDrawing, startX, startY, tempBlurBackup,
                   textVars, annotations>>
    /\ Record("load", NoData)

\* img.onload of the k-th pending image.
ImgOnload(k) ==
    /\ Bounded
    /\ k \in 1..Len(loading)
    /\ surface' = DrawImage(loading[k])
    /\ baseImage' = loading[k]
    /\ editorHidden' = FALSE
    /\ annotations' = << >>
    /\ undoBtnDisabled' = updateUndoButton(annotations')
    /\ loading' = [j \in 1..(Len(loading) - 1) |->
                     IF j < k THEN loading[j] ELSE loading[j + 1]]
    /\ lastRequested' = IF Len(loading) = 1 THEN NoImage ELSE lastRequested
    /\ UNCHANGED <<styleVars, isDrawing, startX, startY, tempBlurBackup,
                   textVars>>
    /\ Record("load", NoData)

\* --------------------------------------------------------------- gesture
\* showTextModal(x, y)
showTextModal(x, y) ==
    /\ textModalOpen' = TRUE
    /\ tempTextX' = x
    /\ tempTextY' = y

\* Mutant of startDrawing: isDrawing is not reset for the text tool.
startDrawingTextDrags(p) ==
    /\ Bounded
    /\ ~editorHidden
    /\ startX' = p[1]
    /\ startY' = p[2]
    /\ IF currentTool = "text"
       THEN /\ showTextModal(p[1], p[2])
            /\ isDrawing' = TRUE
            /\ UNCHANGED tempBlurBackup
       ELSE /\ isDrawing' = TRUE
            /\ tempBlurBackup' =
                   IF currentTool = "blur" THEN surface ELSE tempBlurBackup
            /\ UNCHANGED textVars
    /\ UNCHANGED <<styleVars, annotations, baseImage, surface,
                   undoBtnDisabled, editorHidden, loading>>
    /\ RecordInput("down",
                   IF ~isDrawing' THEN NoData
                   ELSE IF isDrawing /\ preGesture # NoData
                        THEN preGesture ELSE surface,
                   p)

\* startDrawing: mousedown on the canvas at position p.
startDrawing(p) ==
    /\ Bounded
    /\ ~editorHidden
    /\ startX' = p[1]
    /\ startY' = p[2]
    /\ IF currentTool = "text"
       THEN /\ showTextModal(p[1], p[2])
            /\ isDrawing' = FALSE
            /\ UNCHANGED tempBlurBackup
       ELSE /\ isDrawing' = TRUE
            /\ tempBlurBackup' =
                   IF currentTool = "blur" THEN surface ELSE tempBlurBackup
            /\ UNCHANGED textVars
    /\ UNCHANGED <<styleVars, annotations, baseImage, surface,
                   undoBtnDisabled, editorHidden, loading>>
    /\ RecordInput("down",
                   IF ~isDrawing' THEN NoData
                   ELSE IF isDrawing /\ preGesture # NoData
                        THEN preGesture ELSE surface,
                   p)

\* The switch of draw(): the preview of the current tool.
DrawPreview(surf, tool, x1, y1, x2, y2, color, lineWidth) ==
    CASE tool = "arrow" -> drawArrow(surf, x1, y1, x2, y2, color, lineWidth)
      [] tool = "rect" -> drawRect(surf, x1, y1, x2, y2, color, lineWidth)
      [] tool = "circle" -> drawCircle(surf, x1, y1, x2, y2, color, lineWidth)
      [] tool = "highlight" -> drawHighlight(surf, x1, y1, x2, y2, color)
      [] tool = "blur" -> drawBlurPreview(surf, x1, y1, x2, y2)
      [] OTHER -> surf

\* Mutant of draw: the preview is drawn whether or not a drag is under way.
drawWithoutGuard(p, throws) ==
    /\ Bounded
    /\ ~editorHidden
    /\ IF FALSE THEN UNCHANGED vars
       ELSE /\ throws => BlurRuns(annotations)
            /\ surface' = DrawPreview(
                     redrawCanvas(surface, annotations, baseImage,
                                  strokeWidth, throws),
                     currentTool, startX, startY, p[1], p[2],
                     currentColor, strokeWidth)
            /\ UNCHANGED <<styleVars, isDrawing, startX, startY, annotations,
                           baseImage, tempBlurBackup, textVars,
                           undoBtnDisabled, editorHidden, loading>>
            /\ RecordCaught("move", preGesture, p, throws)

\* draw: mousemove on the canvas at position p.
draw(p, throws) ==
    /\ Bounded
    /\ ~editorHidden
    /\ IF ~isDrawing THEN UNCHANGED vars
       ELSE /\ throws => BlurRuns(annotations)
            /\ surface' = DrawPreview(
                     redrawCanvas(surface, annotations, baseImage,
                                  strokeWidth, throws),
                     currentTool, startX, startY, p[1], p[2],
                     currentColor, strokeWidth)
            /\ UNCHANGED <<styleVars, isDrawing, startX, startY, annotations,
                           baseImage, tempBlurBackup, textVars,
                           undoBtnDisabled, editorHidden, loading>>
            /\ RecordCaught("move", preGesture, p, throws)

\* Mutant of DragAnnotation: the snapshot of a blur is taken from the canvas
\* after the pixelation filter has run.
DragAnnotationSnapshotAfter(endX, endY) ==
    IF currentTool = "blur"
    THEN [tool |-> "blur", startX |-> startX, startY |-> startY,
          endX |-> endX, endY |-> endY, color |-> currentColor,
          strokeWidth |-> strokeWidth,
          originalImageData |->
              applyBlurEffect(surface, Min(startX, endX), Min(startY, endY),
                              Abs(endX - startX), Abs(endY - startY),
                              strokeWidth, FALSE)]
    ELSE [tool |-> currentTool, startX |-> startX, startY |-> startY,
          endX |-> endX, endY |-> endY, color |-> currentColor,
          strokeWidth |-> strokeWidth]

\* The annotation stopDrawing pushes for a drag ending at (endX, endY).
DragAnnotation(endX, endY) ==
    IF currentTool = "blur"
    THEN [tool |-> "blur", startX |-> startX, startY |-> startY,
          endX |-> endX, endY |-> endY, color |-> currentColor,
          strokeWidth |-> strokeWidth, originalImageData |-> tempBlurBackup]
    ELSE [tool |-> currentTool, startX |-> startX, startY |-> startY,
          endX |-> endX, endY |-> endY, color |-> currentColor,
          strokeWidth |-> strokeWidth]

\* Does stopDrawing push an annotation for a drag ending at (endX, endY)?
Commits(endX, endY) ==
    IF currentTool = "blur"
    THEN /\ ~IsNaN(endX) /\ ~IsNaN(endY)
         /\ Abs(endX - startX) > Px(1) /\ Abs(endY - startY) > Px(1)
    ELSE TRUE

\* Mutant of stopDrawing: a blur commit makes the pixelated canvas the new
\* base image.
stopDrawingRebasesBlur(p, throws) ==
    /\ Bounded
    /\ ~editorHidden
    /\ IF ~isDrawing THEN UNCHANGED vars
       ELSE LET endX == p[1]
                endY == p[2]
                minX == Min(startX, endX)
                minY == Min(startY, endY)
                width == Abs(endX - startX)
                height == Abs(endY - startY)
            IN  /\ Commits(endX, endY) => Len(annotations) < MaxAnnotations
                /\ throws => /\ Commits(endX, endY)
                             /\ ReachesPixels(DragAnnotation(endX, endY))
                /\ annotations' =
                       IF Commits(endX, endY)
                       THEN Append(annotations, DragAnnotation(endX, endY))
                       ELSE annotations
                /\ surface' =
                       IF currentTool = "blur" /\ Commits(endX, endY)
                       THEN applyBlurEffect(surface, minX, minY, width,
                                            height, strokeWidth, throws)
                       ELSE surface
                /\ baseImage' =
                       IF currentTool = "blur" /\ Commits(endX, endY)
                       THEN NumImages + 1 ELSE baseImage
                /\ isDrawing' = FALSE
                /\ tempBlurBackup' = NoData
                /\ undoBtnDisabled' = updateUndoButton(annotations')
                /\ UNCHANGED <<styleVars, startX, startY, textVars,
                               editorHidden, loading>>
                /\ IF Commits(endX, endY)
                   THEN RecordCaught("commit", preGesture, p, throws)
                   ELSE Record("drop", NoData)

\* Mutant of stopDrawing: a dropped drag returns before the gesture state
\* is reset.
stopDrawingDropReturns(p, throws) ==
    /\ Bounded
    /\ ~editorHidden
    /\ IF ~isDrawing THEN UNCHANGED vars
       ELSE LET endX == p[1]
                endY == p[2]
                minX == Min(startX, endX)
                minY == Min(startY, endY)
                width == Abs(endX - startX)
                height == Abs(endY - startY)
            IN  /\ Commits(endX, endY) => Len(annotations) < MaxAnnotations
                /\ throws => /\ Commits(endX, endY)
                             /\ ReachesPixels(DragAnnotation(endX, endY))
                /\ annotations' =
                       IF Commits(endX, endY)
                       THEN Append(annotations, DragAnnotation(endX, endY))
                       ELSE annotations
                /\ surface' =
                       IF currentTool = "blur" /\ Commits(endX, endY)
                       THEN applyBlurEffect(surface, minX, minY, width,
                                            height, strokeWidth, throws)
                       ELSE surface
                /\ isDrawing' = ~Commits(endX, endY)
                /\ tempBlurBackup' =
                       IF Commits(endX, endY) THEN NoData ELSE tempBlurBackup
                /\ undoBtnDisabled' = updateUndoButton(annotations')
                /\ UNCHANGED <<styleVars, startX, startY, baseImage,
                               textVars, editorHidden, loading>>
                /\ IF Commits(endX, endY)
                   THEN RecordCaught("commit", preGesture, p, throws)
                   ELSE Record("drop", NoData)

\* Mutant of stopDrawing: applyBlurEffect has no try/catch, and the error of
\* its pixel operations ends the handler after the push.
stopDrawingUncaught(p, throws) ==
    /\ Bounded
    /\ ~editorHidden
    /\ IF ~isDrawing THEN UNCHANGED vars
       ELSE LET endX == p[1]
                endY == p[2]
                minX == Min(startX, endX)
                minY == Min(startY, endY)
                width == Abs(endX - startX)
                height == Abs(endY - startY)
            IN  /\ Commits(endX, endY) => Len(annotations) < MaxAnnotations
                /\ throws => /\ Commits(endX, endY)
                             /\ ReachesPixels(DragAnnotation(endX, endY))
                /\ annotations' =
                       IF Commits(endX, endY)
                       THEN Append(annotations, DragAnnotation(endX, endY))
                       ELSE annotations
                /\ surface' =
                       IF currentTool = "blur" /\ Commits(endX, endY)
                       THEN applyBlurEffect(surface, minX, minY, width,
                                            height, strokeWidth, throws)
                       ELSE surface
                /\ isDrawing' = throws
                /\ tempBlurBackup' = IF throws THEN tempBlurBackup ELSE NoData
                /\ undoBtnDisabled' =
                       IF throws THEN undoBtnDisabled
                       ELSE updateUndoButton(annotations')
                /\ UNCHANGED <<styleVars, startX, startY, baseImage,
                               textVars, editorHidden, loading>>
                /\ IF Commits(endX, endY)
                   THEN RecordCaught("commit", preGesture, p, throws)
                   ELSE Record("drop", NoData)

\* Mutant of stopDrawing: isDrawing is left set after the release.
stopDrawingKeepsDrawing(p, throws) ==
    /\ Bounded
    /\ ~editorHidden
    /\ IF ~isDrawing THEN UNCHANGED vars
       ELSE LET endX == p[1]
                endY == p[2]
                minX == Min(startX, endX)
                minY == Min(startY, endY)
                width == Abs(endX - startX)
                height == Abs(endY - startY)
            IN  /\ Commits(endX, endY) => Len(annotations) < MaxAnnotations
                /\ throws => /\ Commits(endX, endY)
                             /\ ReachesPixels(DragAnnotation(endX, endY))
                /\ annotations' =
                       IF Commits(endX, endY)
                       THEN Append(annotations, DragAnnotation(endX, endY))
                       ELSE annotations
                /\ surface' =
                       IF currentTool = "blur" /\ Commits(endX, endY)
                       THEN applyBlurEffect(surface, minX, minY, width,
                                            height, strokeWidth, throws)
                       ELSE surface
                /\ tempBlurBackup' = NoData
                /\ undoBtnDisabled' = updateUndoButton(annotations')
                /\ UNCHANGED <<styleVars, isDrawing, startX, startY,
                               baseImage, textVars, editorHidden, loading>>
                /\ IF Commits(endX, endY)
                   THEN RecordCaught("commit", preGesture, p, throws)
                   ELSE Record("drop", NoData)

\* stopDrawing: mouseup (or mouseleave) on the canvas at position p.
stopDrawing(p, throws) ==
    /\ Bounded
    /\ ~editorHidden
    /\ IF ~isDrawing THEN UNCHANGED vars
       ELSE LET endX == p[1]
                endY == p[2]
                minX == Min(startX, endX)
                minY == Min(startY, endY)
                width == Abs(endX - startX)
                height == Abs(endY - startY)
            IN  /\ Commits(endX, endY) => Len(annotations) < MaxAnnotations
                /\ throws => /\ Commits(endX, endY)
                             /\ ReachesPixels(DragAnnotation(endX, endY))
                /\ annotations' =
                       IF Commits(endX, endY)
                       THEN Append(annotations, DragAnnotation(endX, endY))
                       ELSE annotations
                /\ surface' =
                       IF currentTool = "blur" /\ Commits(endX, endY)
                       THEN applyBlurEffect(surface, minX, minY, width,
                                            height, strokeWidth, throws)
                       ELSE surface
                /\ isDrawing' = FALSE
                /\ tempBlurBackup' = NoData
                /\ undoBtnDisabled' = updateUndoButton(annotations')
                /\ UNCHANGED <<styleVars, startX, startY, baseImage,
                               textVars, editorHidden, loading>>
                /\ IF Commits(endX, endY)
                   THEN RecordCaught("commit", preGesture, p, throws)
                   ELSE Record("drop", NoData)

\* ---------------------------------------------------------------- history
Last(seq) == seq[Len(seq)]
Front(seq) == SubSeq(seq, 1, Len(seq) - 1)

\* undo's putImageData(lastAnnotation.originalImageData, 0, 0): only for a
\* blur that carries a snapshot.
putSnapshot(surf, a) ==
    IF a.tool = "blur" /\ a.originalImageData # NoData
    THEN a.originalImageData ELSE surf

\* Mutant of undo: the oldest annotation is removed instead of the last.
undoRemovesFirst(throws) ==
    /\ Bounded
    /\ IF Len(annotations) = 0 THEN UNCHANGED vars
       ELSE /\ annotations' = Tail(annotations)
            /\ throws => BlurRuns(annotations')
            /\ surface' = redrawCanvas(putSnapshot(surface, Last(annotations)),
                                       annotations', baseImage, strokeWidth,
                                       throws)
            /\ undoBtnDisabled' = updateUndoButton(annotations')
            /\ UNCHANGED <<styleVars, isDrawing, startX, startY, baseImage,
                           tempBlurBackup, textVars, editorHidden, loading>>
            /\ RecordCaught("undo",
                            IF isDrawing THEN preGesture ELSE NoData,
                            NoData, throws)

\* Mutant of undo: a blur is undone by its snapshot alone, without a
\* recomposite.
undoRestoresSnapshotOnly(throws) ==
    /\ Bounded
    /\ IF Len(annotations) = 0 THEN UNCHANGED vars
       ELSE /\ annotations' = SubSeq(annotations, 1, Len(annotations) - 1)
            /\ throws => BlurRuns(annotations')
            /\ surface' =
                   IF /\ Last(annotations).tool = "blur"
                      /\ Last(annotations).originalImageData # NoData
                   THEN putSnapshot(surface, Last(annotations))
                   ELSE redrawCanvas(surface, annotations', baseImage,
                                     strokeWidth, throws)
            /\ undoBtnDisabled' = updateUndoButton(annotations')
            /\ UNCHANGED <<styleVars, isDrawing, startX, startY, baseImage,
                           tempBlurBackup, textVars, editorHidden, loading>>
            /\ RecordCaught("undo",
                            IF isDrawing THEN preGesture ELSE NoData,
                            NoData, throws)

\* Mutant of undo: the recomposite and the button update run on an empty
\* store too.
undoRedrawsEmptyStore(throws) ==
    /\ Bounded
    /\ annotations' = IF Len(annotations) = 0 THEN annotations
                      ELSE SubSeq(annotations, 1, Len(annotations) - 1)
    /\ throws => BlurRuns(annotations')
    /\ surface' = redrawCanvas(IF Len(annotations) = 0 THEN surface
                               ELSE putSnapshot(surface, Last(annotations)),
                               annotations', baseImage, strokeWidth, throws)
    /\ undoBtnDisabled' = updateUndoButton(annotations')
    /\ UNCHANGED <<styleVars, isDrawing, startX, startY, baseImage,
                   tempBlurBackup, textVars, editorHidden, loading>>
    /\ RecordCaught("undo", IF isDrawing THEN preGesture ELSE NoData,
                    NoData, throws)

undo(throws) ==
    /\ Bounded
    /\ IF Len(annotations) = 0 THEN UNCHANGED vars
       ELSE /\ annotations' = SubSeq(annotations, 1, Len(annotations) - 1)
            /\ throws => BlurRuns(annotations')
            /\ surface' = redrawCanvas(putSnapshot(surface, Last(annotations)),
                                       annotations', baseImage, strokeWidth,
                                       throws)
            /\ undoBtnDisabled' = updateUndoButton(annotations')
            /\ UNCHANGED <<styleVars, isDrawing, startX, startY, baseImage,
                           tempBlurBackup, textVars, editorHidden, loading>>
            /\ RecordCaught("undo",
                            IF isDrawing THEN preGesture ELSE NoData,
                            NoData, throws)

\* Mutant of clearAnnotations: updateUndoButton() is not called.
clearKeepsUndoButton ==
    /\ Bounded
    /\ ~editorHidden
    /\ annotations' = << >>
    /\ surface' = redrawCanvas(surface, annotations', baseImage,
                               strokeWidth, FALSE)
    /\ UNCHANGED <<styleVars, isDrawing, startX, startY, baseImage,
                   tempBlurBackup, textVars, editorHidden, loading,
                   undoBtnDisabled>>
    /\ Forget("clear")

\* Mutant of clearAnnotations: the recomposite runs before the store is
\* emptied.
clearRedrawsOldStore ==
    /\ Bounded
    /\ ~editorHidden
    /\ annotations' = << >>
    /\ surface' = redrawCanvas(surface, annotations, baseImage,
                               strokeWidth, FALSE)
    /\ undoBtnDisabled' = updateUndoButton(annotations')
    /\ UNCHANGED <<styleVars, isDrawing, startX, startY, baseImage,
                   tempBlurBackup, textVars, editorHidden, loading>>
    /\ Forget("clear")

clearAnnotations ==
    /\ Bounded
    /\ ~editorHidden
    /\ annotations' = << >>
    /\ surface' = redrawCanvas(surface, annotations', baseImage,
                               strokeWidth, FALSE)
    /\ undoBtnDisabled' = updateUndoButton(annotations')
    /\ UNCHANGED <<styleVars, isDrawing, startX, startY, baseImage,
                   tempBlurBackup, textVars, editorHidden, loading>>
    /\ Forget("clear")

backToCapture ==
    /\ Bounded
    /\ ~editorHidden
    /\ editorHidden' = TRUE
    /\ annotations' = << >>
    /\ baseImage' = NoImage
    /\ UNCHANGED <<styleVars, isDrawing, startX, startY, surface,
                   tempBlurBackup, textVars, undoBtnDisabled, loading>>
    /\ Record("back", NoData)

\* ------------------------------------------------------------ text prompt
hideTextModal ==
    /\ Bounded
    /\ textModalOpen
    /\ textModalOpen' = FALSE
    /\ UNCHANGED <<styleVars, isDrawing, startX, startY, annotations,
                   baseImage, surface, tempBlurBackup, tempTextX, tempTextY,
                   undoBtnDisabled, editorHidden, loading>>
    /\ Forget("cancel")

\* Mutant of submitTextModal: the input is not trimmed.
submitTextModalNoTrim(raw, throws) ==
    /\ Bounded
    /\ textModalOpen
    /\ LET text == sanitizeInput(raw)
       IN  IF text = << >>
           THEN /\ ~throws
                /\ UNCHANGED <<annotations, surface, undoBtnDisabled>>
                /\ RecordInput("textdrop",
                               IF isDrawing THEN preGesture ELSE NoData, raw)
           ELSE /\ Len(annotations) < MaxAnnotations
                /\ annotations' = Append(annotations,
                       [tool |-> "text", x |-> tempTextX, y |-> tempTextY,
                        text |-> text, color |-> currentColor,
                        fontSize |-> strokeWidth * FontScale])
                /\ throws => BlurRuns(annotations)
                /\ surface' = redrawCanvas(surface, annotations',
                                           baseImage, strokeWidth, throws)
                /\ undoBtnDisabled' = updateUndoButton(annotations')
                /\ RecordCaught("text", surface, raw, throws)
    /\ textModalOpen' = FALSE
    /\ UNCHANGED <<styleVars, isDrawing, startX, startY, baseImage,
                   tempBlurBackup, tempTextX, tempTextY, editorHidden,
                   loading>>

submitTextModal(raw, throws) ==
    /\ Bounded
    /\ textModalOpen
    /\ LET text == sanitizeInput(Trim(raw))
       IN  IF text = << >>
           THEN /\ ~throws
                /\ UNCHANGED <<annotations, surface, undoBtnDisabled>>
                /\ RecordInput("textdrop",
                               IF isDrawing THEN preGesture ELSE NoData, raw)
           ELSE /\ Len(annotations) < MaxAnnotations
                /\ annotations' = Append(annotations,
                       [tool |-> "text", x |-> tempTextX, y |-> tempTextY,
                        text |-> text, color |-> currentColor,
                        fontSize |-> strokeWidth * FontScale])
                /\ throws => BlurRuns(annotations)
                /\ surface' = redrawCanvas(surface, annotations',
                                           baseImage, strokeWidth, throws)
                /\ undoBtnDisabled' = updateUndoButton(annotations')
                /\ RecordCaught("text", surface, raw, throws)
    /\ textModalOpen' = FALSE
    /\ UNCHANGED <<styleVars, isDrawing, startX, startY, baseImage,
                   tempBlurBackup, tempTextX, tempTextY, editorHidden,
                   loading>>

\* Mutant of Escape: only the modals are hidden.
EscapeKeepsDrawing ==
    /\ Bounded
    /\ textModalOpen' = FALSE
    /\ UNCHANGED <<styleVars, isDrawing, startX, startY, annotations,
                   baseImage, surface, tempBlurBackup, tempTextX, tempTextY,
                   undoBtnDisabled, editorHidden, loading>>
    /\ Forget("escape")

\* keydown Escape: hideAllModals(), cancelAreaSelection().
Escape ==
    /\ Bounded
    /\ textModalOpen' = FALSE
    /\ isDrawing' = FALSE
    /\ UNCHANGED <<styleVars, startX, startY, annotations, baseImage,
                   surface, tempBlurBackup, tempTextX, tempTextY,
                   undoBtnDisabled, editorHidden, loading>>
    /\ Forget("escape")

\* ----------------------------------------------------------------- export
\* Mutant of downloadImage: the canvas is recomposited before it is encoded.
downloadImageRedraws ==
    /\ Bounded
    /\ ~editorHidden
    /\ surface' = redrawCanvas(surface, annotations, baseImage, strokeWidth,
                               FALSE)
    /\ UNCHANGED <<styleVars, isDrawing, startX, startY, annotations,
                   baseImage, tempBlurBackup, textVars, undoBtnDisabled,
                   editorHidden, loading>>
    /\ Forget("export")

\* downloadImage: canvas.toDataURL and a click on a temporary link.
downloadImage ==
    /\ Bounded
    /\ ~editorHidden
    /\ UNCHANGED <<styleVars, isDrawing, startX, startY, annotations,
                   baseImage, surface, tempBlurBackup, textVars,
                   undoBtnDisabled, editorHidden, loading>>
    /\ Forget("export")

\* shareImage: canvas.toBlob, then navigator.share or the clipboard; when
\* either fails, downloadImage.
shareImage ==
    /\ Bounded
    /\ ~editorHidden
    /\ UNCHANGED <<styleVars, isDrawing, startX, startY, annotations,
                   baseImage, surface, tempBlurBackup, textVars,
                   undoBtnDisabled, editorHidden, loading>>
    /\ Forget("export")

\* ---------------------------------------------------------- specification
Next ==
    \/ \E t \in Tools : selectTool(t)
    \/ \E c \in Colors : SetColor(c)
    \/ \E n \in StrokeWidths : SetStrokeWidth(n)
    \/ \E img \in Images : loadImageToEditor(img)
    \/ \E k \in 1..MaxLoading : ImgOnload(k)
    \/ \E p \in DownPoints : startDrawing(p)
    \/ \E p \in MovePoints, throws \in BOOLEAN : draw(p, throws)
    \/ \E p \in UpPoints, throws \in BOOLEAN : stopDrawing(p, throws)
    \/ \E throws \in BOOLEAN : undo(throws)
    \/ clearAnnotations
    \/ backToCapture
    \/ hideTextModal
    \/ \E raw \in TextInputs, throws \in BOOLEAN : submitTextModal(raw, throws)
    \/ Escape
    \/ downloadImage
    \/ shareImage

Spec == Init /\ [][Next]_vars

\* ------------------------------------------------------- styles after load
\* StyleSpec starts where Spec is after loadImageToEditor(1) and
\* ImgOnload(1), and counts its steps from there: the editor shows image 1,
\* nothing is annotated, the styles are the initial ones.
InitLoaded ==
    /\ currentTool = DefaultTool
    /\ currentColor = DefaultColor
    /\ strokeWidth = DefaultStrokeWidth
    /\ isDrawing = FALSE
    /\ startX = 0
    /\ startY = 0
    /\ annotations = << >>
    /\ baseImage = 1
    /\ surface = DrawImage(1)
    /\ tempBlurBackup = NoData
    /\ tempTextX = 0
    /\ tempTextY = 0
    /\ textModalOpen = FALSE
    /\ undoBtnDisabled = updateUndoButton(annotations)
    /\ editorHidden = FALSE
    /\ loading = << >>
    /\ lastRequested = NoImage
    /\ filter = NoData
    /\ lastOp = "load"
    /\ preGesture = NoData
    /\ prevAnnotations = << >>
    /\ lastRaw = NoData
    /\ caught = FALSE
    /\ steps = 0

StyleTools == {"blur", "text"}

StyleNext ==
    \/ \E t \in StyleTools : selectTool(t)
    \/ \E n \in StrokeWidths : SetStrokeWidth(n)
    \/ \E p \in DownPoints : startDrawing(p)
    \/ \E p \in UpPoints, throws \in BOOLEAN : stopDrawing(p, throws)
    \/ \E throws \in BOOLEAN : undo(throws)
    \/ \E raw \in TextInputs, throws \in BOOLEAN : submitTextModal(raw, throws)

StyleSpec == InitLoaded /\ [][StyleNext]_vars

\* ------------------------------------------------------------ event stream
\* EventSpec delivers the mouse and touch events of the canvas and the undo
\* click whether or not their handlers act.  In the actions above a handler
\* that returns at its first test leaves every variable unchanged; here the
\* delivery of such an event is a step of its own that only the history
\* records.
progVars == <<currentTool, currentColor, strokeWidth, isDrawing, startX,
              startY, annotations, baseImage, surface, tempBlurBackup,
              tempTextX, tempTextY, textModalOpen, undoBtnDisabled,
              editorHidden, loading>>

Ignored(op) ==
    /\ Bounded
    /\ UNCHANGED progVars
    /\ Forget(op)

\* The handler acts if it can change anything; if all it can do is return,
\* the event is recorded as ignored.
Delivered(Handler, op) ==
    IF ENABLED (Handler /\ vars' # vars) THEN Handler
    ELSE ENABLED Handler /\ Ignored(op)

\* What getCanvasMousePosition returns for a TouchEvent: the event has no
\* clientX and no clientY.
NaNPoint == <<NaN, NaN>>

\* touchstart and touchmove dispatch a synthetic mousedown or mousemove at
\* the position of the first touch; the canvas listeners run at once.
handleTouchStart(p) ==
    /\ Bounded
    /\ startDrawing(p)

handleTouchMove(p, throws) == draw(p, throws)

mousemove(p) ==
    /\ ~editorHidden
    /\ Delivered(\E throws \in BOOLEAN : draw(p, throws), "nomove")

touchmove(p) ==
    /\ ~editorHidden
    /\ Delivered(\E throws \in BOOLEAN : handleTouchMove(p, throws), "nomove")

\* mouseup and mouseleave: stopDrawing with the MouseEvent.
mouseup(p) ==
    /\ ~editorHidden
    /\ Delivered(\E throws \in BOOLEAN : stopDrawing(p, throws), "norelease")

\* touchend: the listener is stopDrawing itself, called with the TouchEvent.
touchend ==
    /\ ~editorHidden
    /\ Delivered(\E throws \in BOOLEAN : stopDrawing(NaNPoint, throws),
                 "norelease")

\* Click on the undo button, or Ctrl+Z.
clickUndo ==
    /\ Bounded
    /\ Delivered(\E throws \in BOOLEAN : undo(throws), "noundo")

\* The tools and the image the event stream is explored with: one vector
\* tool, the blur tool and one image.
EventTools == {"arrow", "blur"}
EventImage == 1

EventNext ==
    \/ \E t \in EventTools : selectTool(t)
    \/ loadImageToEditor(EventImage)
    \/ \E k \in 1..MaxLoading : ImgOnload(k)
    \/ \E p \in DownPoints : startDrawing(p)
    \/ \E p \in DownPoints : handleTouchStart(p)
    \/ \E p \in MovePoints : mousemove(p)
    \/ \E p \in MovePoints : touchmove(p)
    \/ \E p \in UpPoints : mouseup(p)
    \/ touchend
    \/ clickUndo

EventSpec == Init /\ [][EventNext]_vars

\* ========================================================= second revision
\* Lines 1031-1948 of src/app.js: the revision in which a blur commit
\* replaces the base image by a copy of the canvas.  The base image is kept
\* here as its pixels (NoData: null), and a pending Image is a record of its
\* kind ("file": created by loadImageToEditor, "blur": created by
\* applyBlurPermanently) and its pixels.  The pixel operations are taken to
\* succeed.  The variables the revision does not have keep their initial
\* values.
Bounded2 == steps < MaxSteps2

Init2 ==
    /\ currentTool = DefaultTool
    /\ currentColor = DefaultColor
    /\ strokeWidth = DefaultStrokeWidth
    /\ isDrawing = FALSE
    /\ startX = 0
    /\ startY = 0
    /\ annotations = << >>
    /\ baseImage = NoData
    /\ surface = ClearRect
    /\ tempBlurBackup = NoData
    /\ tempTextX = 0
    /\ tempTextY = 0
    /\ textModalOpen = FALSE
    /\ undoBtnDisabled \in BOOLEAN
    /\ editorHidden = TRUE
    /\ loading = << >>
    /\ lastRequested = NoImage
    /\ filter = NoData
    /\ lastOp = "init"
    /\ preGesture = NoData
    /\ prevAnnotations = << >>
    /\ lastRaw = NoData
    /\ caught = FALSE
    /\ steps = 0

selectTool2(tool) ==
    /\ Bounded2
    /\ currentTool' = tool
    /\ UNCHANGED <<currentColor, strokeWidth, isDrawing, startX, startY,
                   annotations, baseImage, surface, tempBlurBackup, textVars,
                   undoBtnDisabled, editorHidden, loading>>
    /\ Forget("style")

\* loadImageToEditor(dataURL) of the second revision.
loadImageToEditor2(img) ==
    /\ Bounded2
    /\ Len(loading) < MaxLoading
    /\ loading' = Append(loading, [kind |-> "file", pixels |-> DrawImage(img)])
    /\ UNCHANGED <<styleVars, isDrawing, startX, startY, annotations,
                   baseImage, surface, tempBlurBackup, textVars,
                   undoBtnDisabled, editorHidden, lastRequested>>
    /\ Forget("request")

\* The pending Images without the k-th.
Without(seq, k) ==
    [j \in 1..(Len(seq) - 1) |-> IF j < k THEN seq[j] ELSE seq[j + 1]]

\* img.onload of loadImageToEditor for the k-th pending Image.
ImgOnload2(k) ==
    /\ Bounded2
    /\ k \in 1..Len(loading)
    /\ loading[k].kind = "file"
    /\ surface' = loading[k].pixels
    /\ baseImage' = loading[k].pixels
    /\ editorHidden' = FALSE
    /\ annotations' = << >>
    /\ undoBtnDisabled' = updateUndoButton(annotations')
    /\ loading' = Without(loading, k)
    /\ UNCHANGED <<styleVars, isDrawing, startX, startY, tempBlurBackup,
                   textVars, lastRequested>>
    /\ Record("load", NoData)

\* img.onload of applyBlurPermanently for the k-th pending Image: the copy
\* of the canvas becomes the base image.
BlurImgOnload(k) ==
    /\ Bounded2
    /\ k \in 1..Len(loading)
    /\ loading[k].kind = "blur"
    /\ baseImage' = loading[k].pixels
    /\ loading' = Without(loading, k)
    /\ UNCHANGED <<styleVars, isDrawing, startX, startY, annotations,
                   surface, tempBlurBackup, textVars, undoBtnDisabled,
                   editorHidden>>
    /\ Forget("rebase")

startDrawing2(p) ==
    /\ Bounded2
    /\ ~editorHidden
    /\ startX' = p[1]
    /\ startY' = p[2]
    /\ IF currentTool = "text"
       THEN /\ showTextModal(p[1], p[2])
            /\ isDrawing' = FALSE
       ELSE /\ isDrawing' = TRUE
            /\ UNCHANGED textVars
    /\ UNCHANGED <<styleVars, annotations, baseImage, surface,
                   tempBlurBackup, undoBtnDisabled, editorHidden, loading>>
    /\ RecordInput("down", IF isDrawing' THEN surface ELSE NoData, p)

\* The forEach of the second revision's redrawCanvas from the k-th
\* annotation on: a blur annotation draws nothing.
RECURSIVE RenderFrom2(_, _, _)
RenderFrom2(surf, anns, k) ==
    IF k > Len(anns) THEN surf
    ELSE RenderFrom2(IF anns[k].tool = "blur" THEN surf
                     ELSE RenderAnnotation(surf, anns[k], anns[k].strokeWidth,
                                           FALSE),
                     anns, k + 1)

redrawCanvas2(surf, anns, base) ==
    RenderFrom2(IF base = NoData THEN clearRect(surf) ELSE base, anns, 1)

draw2(p) ==
    /\ Bounded2
    /\ ~editorHidden
    /\ IF ~isDrawing THEN UNCHANGED vars
       ELSE /\ surface' = DrawPreview(
                     redrawCanvas2(surface, annotations, baseImage),
                     currentTool, startX, startY, p[1], p[2],
                     currentColor, strokeWidth)
            /\ UNCHANGED <<styleVars, isDrawing, startX, startY, annotations,
                           baseImage, tempBlurBackup, textVars,
                           undoBtnDisabled, editorHidden, loading>>
            /\ RecordInput("move", preGesture, p)

\* The canvas after applyBlurPermanently(x1, y1, x2, y2): the loops are
\* those of applyBlurEffect.
applyBlurPermanently(surf, x1, y1, x2, y2, sw) ==
    applyBlurEffect(surf, Min(x1, x2), Min(y1, y2), Abs(x2 - x1),
                    Abs(y2 - y1), sw, FALSE)

\* Does applyBlurPermanently(x1, y1, x2, y2) pass its two size tests, so
\* that it pixelates and creates the Image that will replace the base image?
UpdatesBase(x1, y1, x2, y2) ==
    ReachesPixels([tool |-> "blur", startX |-> x1, startY |-> y1,
                   endX |-> x2, endY |-> y2])

stopDrawing2(p) ==
    /\ Bounded2
    /\ ~editorHidden
    /\ IF ~isDrawing THEN UNCHANGED vars
       ELSE LET blurred == applyBlurPermanently(surface, startX, startY,
                                               p[1], p[2], strokeWidth)
                updates == /\ currentTool = "blur"
                           /\ UpdatesBase(startX, startY, p[1], p[2])
            IN  /\ Len(annotations) < MaxAnnotations
                /\ updates => Len(loading) < MaxLoading
                /\ surface' = IF currentTool = "blur" THEN blurred
                              ELSE surface
                /\ loading' =
                       IF updates
                       THEN Append(loading,
                                   [kind |-> "blur", pixels |-> blurred])
                       ELSE loading
                /\ annotations' =
                       Append(annotations,
                              [tool |-> currentTool, startX |-> startX,
                               startY |-> startY, endX |-> p[1],
                               endY |-> p[2], color |-> currentColor,
                               strokeWidth |-> strokeWidth])
                /\ isDrawing' = FALSE
                /\ undoBtnDisabled' = updateUndoButton(annotations')
                /\ UNCHANGED <<styleVars, startX, startY, baseImage,
                               tempBlurBackup, textVars, editorHidden>>
                /\ RecordInput("commit", preGesture, p)

undo2 ==
    /\ Bounded2
    /\ IF Len(annotations) = 0 THEN UNCHANGED vars
       ELSE /\ annotations' = SubSeq(annotations, 1, Len(annotations) - 1)
            /\ surface' = redrawCanvas2(surface, annotations', baseImage)
            /\ undoBtnDisabled' = updateUndoButton(annotations')
            /\ UNCHANGED <<styleVars, isDrawing, startX, startY, baseImage,
                           tempBlurBackup, textVars, editorHidden, loading>>
            /\ Record("undo", IF isDrawing THEN preGesture ELSE NoData)

Next2 ==
    \/ \E t \in EventTools : selectTool2(t)
    \/ loadImageToEditor2(EventImage)
    \/ \E k \in 1..MaxLoading : ImgOnload2(k)
    \/ \E k \in 1..MaxLoading : BlurImgOnload(k)
    \/ \E p \in DownPoints : startDrawing2(p)
    \/ \E p \in MovePoints : draw2(p)
    \/ \E p \in UpPoints : stopDrawing2(p)
    \/ undo2

Spec2 == Init2 /\ [][Next2]_vars

\* ======================================================= pixelation loops
\* The four nested loops of applyBlurEffect (lines 729-747), one action per
\* loop test, run on a clamped rectangle of safeWidth x safeHeight pixels.
\* filter holds the loop variables, the block origins read so far (visited)
\* and the number of pixel writes (written).
FilterStart(w, h, sw) ==
    [pc |-> "py", safeWidth |-> w, safeHeight |-> h,
     pixelSize |-> PixelSize(sw), py |-> 0, px |-> 0, blockY |-> 0,
     blockX |-> 0, visited |-> << >>, written |-> 0]

FilterInit ==
    /\ currentTool = "blur"
    /\ currentColor = DefaultColor
    /\ strokeWidth = DefaultStrokeWidth
    /\ isDrawing = TRUE
    /\ startX = 0
    /\ startY = 0
    /\ annotations = << >>
    /\ baseImage = NoImage
    /\ surface = ClearRect
    /\ tempBlurBackup = NoData
    /\ tempTextX = 0
    /\ tempTextY = 0
    /\ textModalOpen = FALSE
    /\ undoBtnDisabled = TRUE
    /\ editorHidden = FALSE
    /\ loading = << >>
    /\ lastRequested = NoImage
    /\ filter \in {FilterStart(w, h, sw) : w \in 1..MaxFilterWidth,
                                           h \in 1..MaxFilterHeight,
                                           sw \in 1..MaxFilterStroke}
    /\ lastOp = "filter"
    /\ preGesture = NoData
    /\ prevAnnotations = << >>
    /\ lastRaw = NoData
    /\ caught = FALSE
    /\ steps = 0

FilterFrame ==
    UNCHANGED <<progVars, lastRequested, lastOp, preGesture, prevAnnotations,
                lastRaw, caught, steps>>

\* for (let py = 0; py < safeHeight; py += pixelSize): the test.
ForPy ==
    /\ filter.pc = "py"
    /\ filter' = IF filter.py < filter.safeHeight
                 THEN [filter EXCEPT !.pc = "px", !.px = 0]
                 ELSE [filter EXCEPT !.pc = "done"]
    /\ FilterFrame

\* for (let px = 0; px < safeWidth; px += pixelSize): the test; inside, the
\* block's first pixel is read; at the end, py += pixelSize.
ForPx ==
    /\ filter.pc = "px"
    /\ filter' = IF filter.px < filter.safeWidth
                 THEN [filter EXCEPT
                          !.pc = "blockY",
                          !.visited = Append(@, <<filter.py, filter.px>>),
                          !.blockY = filter.py]
                 ELSE [filter EXCEPT !.pc = "py",
                                     !.py = @ + filter.pixelSize]
    /\ FilterFrame

\* Mutant of ForBlockY: the column loop advances by one pixel.
ForBlockYStepsOne ==
    /\ filter.pc = "blockY"
    /\ filter' = IF filter.blockY < Min(filter.py + filter.pixelSize,
                                        filter.safeHeight)
                 THEN [filter EXCEPT !.pc = "blockX", !.blockX = filter.px]
                 ELSE [filter EXCEPT !.pc = "px", !.px = @ + 1]
    /\ FilterFrame

\* for (let blockY = py; blockY < Math.min(py + pixelSize, safeHeight);
\* blockY++): the test; at the end, px += pixelSize.
ForBlockY ==
    /\ filter.pc = "blockY"
    /\ filter' = IF filter.blockY < Min(filter.py + filter.pixelSize,
                                        filter.safeHeight)
                 THEN [filter EXCEPT !.pc = "blockX", !.blockX = filter.px]
                 ELSE [filter EXCEPT !.pc = "px",
                                     !.px = @ + filter.pixelSize]
    /\ FilterFrame

\* for (let blockX = px; blockX < Math.min(px + pixelSize, safeWidth);
\* blockX++): the test; inside, one pixel is written; at the end, blockY++.
ForBlockX ==
    /\ filter.pc = "blockX"
    /\ filter' = IF filter.blockX < Min(filter.px + filter.pixelSize,
                                        filter.safeWidth)
                 THEN [filter EXCEPT !.written = @ + 1, !.blockX = @ + 1]
                 ELSE [filter EXCEPT !.pc = "blockY", !.blockY = @ + 1]
    /\ FilterFrame

FilterNext ==
    \/ ForPy
    \/ ForPx
    \/ ForBlockY
    \/ ForBlockX

\* The loops are synchronous code: a loop that can take a step takes it.
FilterSpec == FilterInit /\ [][FilterNext]_vars /\ WF_vars(FilterNext)

\* ================================================================ claims
HasBlur(anns) == \E i \in DOMAIN anns : anns[i].tool = "blur"

\* C1: a blur commit by a drag, followed at once by undo(), leaves every
\* pixel of the surface as it was when the blur gesture began, whatever the
\* store held before (no pixel operation failing in either handler).
C1_BlurUndoRestores ==
    [][(/\ lastOp = "commit"
        /\ Last(annotations).tool = "blur"
        /\ baseImage # NoImage
        /\ preGesture # NoData
        /\ lastOp' = "undo"
        /\ ~caught /\ ~caught')
       => surface' = preGesture]_vars

\* C2: committing a non-blur annotation (by a drag or by the text prompt)
\* and undoing it at once leaves the surface as it was before the commit
\* (no pixel operation failing in either handler).
C2_VectorUndoRestores ==
    [][(/\ lastOp \in {"commit", "text"}
        /\ Last(annotations).tool # "blur"
        /\ baseImage # NoImage
        /\ preGesture # NoData
        /\ lastOp' = "undo"
        /\ ~caught /\ ~caught')
       => surface' = preGesture]_vars

\* C3: every blur annotation of the store carries a pixel snapshot.
C3_BlurHasSnapshot ==
    \A i \in DOMAIN annotations :
        annotations[i].tool = "blur"
            => annotations[i].originalImageData # NoData

\* C4: after clear() the store is empty, the undo button is disabled and
\* the surface is the recomposite of the empty store over the base image.
C4_ClearResets ==
    lastOp = "clear" =>
        /\ annotations = << >>
        /\ undoBtnDisabled
        /\ surface = redrawCanvas(surface, << >>, baseImage, strokeWidth, FALSE)

C4_Witness ==
    /\ lastOp = "clear"
    /\ Len(prevAnnotations) > 1
    /\ annotations = << >>
    /\ undoBtnDisabled

\* C5: after clear() the surface shows the base image as it was loaded,
\* pixel for pixel, whatever was committed before (blur included).
C5_ClearShowsBase ==
    (lastOp = "clear" /\ baseImage # NoImage) =>
        \A i \in PixIdx : surface[i] = BasePixel(baseImage, i)

C5_Witness ==
    /\ lastOp = "clear"
    /\ baseImage # NoImage
    /\ HasBlur(prevAnnotations)
    /\ surface = DrawImage(baseImage)

\* C6: a drag whose displacement is below 1 px in both axes appends no
\* annotation, whatever the drag tool.
C6_DegenerateDragDropped ==
    lastOp = "commit" =>
        ~ (/\ Abs(Last(annotations).endX - Last(annotations).startX) < Px(1)
           /\ Abs(Last(annotations).endY - Last(annotations).startY) < Px(1))

\* C7: after a blur commit by a drag whose filter ran to its end, every
\* pixel of each pixelation block has the colour the block's top-left pixel
\* had before the gesture began; the preview overlay is in no committed
\* pixel.
C7_BlurSamplesPreGesture ==
    (lastOp = "commit" /\ Last(annotations).tool = "blur" /\ ~caught) =>
        \A i \in PixIdx :
            InSafeRect(Last(annotations), i) =>
                surface[i] = preGesture[BlockOrigin(Last(annotations), i,
                                                    PixelSize(strokeWidth))]

\* The recomposite in which every blur keeps the block size of the stroke
\* width it was committed with.
RECURSIVE RenderAsCommitted(_, _, _)
RenderAsCommitted(surf, anns, k) ==
    IF k > Len(anns) THEN surf
    ELSE RenderAsCommitted(
             RenderAnnotation(surf, anns[k],
                 IF anns[k].tool = "blur" THEN anns[k].strokeWidth ELSE 0,
                 FALSE),
             anns, k + 1)

\* C8: a recomposite renders every committed annotation with the style it
\* was committed with, whatever tool, colour or stroke width is selected
\* afterwards (no pixel operation failing).
C8_RecompositeIgnoresLaterStyle ==
    (lastOp \in {"undo", "clear", "text"} /\ ~caught) =>
        surface = RenderAsCommitted(
                      IF baseImage # NoImage THEN DrawImage(baseImage)
                      ELSE ClearRect,
                      annotations, 1)

\* C9: a handler leaves the store alone, appends one annotation (commit of
\* a drag or of the text prompt), removes the last one (undo), or empties
\* it (clear, image load, return to capture); what remains keeps its order.
C9_StoreChanges ==
    \/ annotations = prevAnnotations
    \/ /\ lastOp \in {"commit", "text"}
       /\ Len(annotations) = Len(prevAnnotations) + 1
       /\ Front(annotations) = prevAnnotations
    \/ /\ lastOp = "undo"
       /\ prevAnnotations # << >>
       /\ annotations = Front(prevAnnotations)
    \/ /\ lastOp \in {"clear", "load", "back"}
       /\ annotations = << >>

C9_Witness ==
    /\ lastOp = "undo"
    /\ Len(prevAnnotations) = 2
    /\ prevAnnotations[1] # prevAnnotations[2]
    /\ annotations = <<prevAnnotations[1]>>

\* C10: when a load completes, the base image is the loaded image, the
\* store is empty, undo is unavailable and the surface shows that image.
C10_LoadResets ==
    [][lastOp' = "load" =>
        /\ \E k \in DOMAIN loading : baseImage' = loading[k]
        /\ annotations' = << >>
        /\ undoBtnDisabled'
        /\ surface' = DrawImage(baseImage')]_vars

C10_Witness ==
    /\ lastOp = "load"
    /\ prevAnnotations # << >>
    /\ annotations = << >>
    /\ surface = DrawImage(baseImage)

\* C11: the base image is changed by no pointer event, commit (blur
\* included), undo, clear, prompt or style handler: a step changes it only
\* when a load completes or the editor is left for the capture screen.
C11_BaseImageFrame ==
    [][lastOp' \notin {"load", "back"} => baseImage' = baseImage]_vars

C11_Witness ==
    /\ lastOp = "undo"
    /\ HasBlur(prevAnnotations)
    /\ baseImage # NoImage
    /\ surface = DrawImage(baseImage)

\* C12: right after a handler that ends with a recomposite (undo, clear,
\* text commit) in which no pixel operation failed, a second recomposite
\* with the same store, base image and stroke width leaves every pixel as
\* the first one left it.
C12_RecompositeIdempotent ==
    (lastOp \in {"undo", "clear", "text"} /\ ~caught) =>
        redrawCanvas(surface, annotations, baseImage, strokeWidth, FALSE)
            = surface

C12_Witness ==
    /\ lastOp \in {"undo", "text"}
    /\ baseImage # NoImage
    /\ \E i \in DOMAIN annotations : annotations[i].tool = "highlight"
    /\ surface # DrawImage(baseImage)
    /\ redrawCanvas(surface, annotations, baseImage, strokeWidth, FALSE) = surface

\* The pixels an opaque annotation paints, and the store with the
\* annotations at positions k and l exchanged.
Opaque(a) == a.tool \in {"arrow", "rect", "circle", "text"}
Covers(a, i) ==
    CASE a.tool = "arrow" ->
            CoversArrow(CX(i), CY(i), a.startX, a.startY, a.endX, a.endY,
                        a.strokeWidth)
      [] a.tool = "rect" ->
            CoversStrokeRect(CX(i), CY(i), a.startX, a.startY, a.endX,
                             a.endY, a.strokeWidth)
      [] a.tool = "circle" ->
            CoversCircle(CX(i), CY(i), a.startX, a.startY, a.endX, a.endY,
                         a.strokeWidth)
      [] a.tool = "text" ->
            /\ "text" \in DOMAIN a
            /\ CoversText(CX(i), CY(i), a.x, a.y, Len(a.text), a.fontSize)
      [] OTHER -> FALSE
Swap(anns, k, l) ==
    [j \in 1..Len(anns) |->
        IF j = k THEN anns[l] ELSE IF j = l THEN anns[k] ELSE anns[j]]

\* C13: a recomposite replays the store in commit order.  Where the
\* annotation just committed and an earlier one are opaque, differ in colour and cover a
\* common pixel, the pixel shows the colour of the last one; with the two
\* exchanged in the store it shows the colour of the other, so the two
\* orders give different buffers.
C13_LaterOnTop ==
    LET l == Len(annotations)
        shown == redrawCanvas(surface, annotations, baseImage, strokeWidth, FALSE)
    IN  \A k \in DOMAIN annotations :
            (/\ lastOp \in {"commit", "text"}
             /\ k < l
             /\ Opaque(annotations[k]) /\ Opaque(annotations[l])
             /\ annotations[k].color # annotations[l].color)
            => \A i \in PixIdx :
                   (Covers(annotations[k], i) /\ Covers(annotations[l], i))
                   => /\ shown[i] = Ink(annotations[l].color)
                      /\ redrawCanvas(surface, Swap(annotations, k, l),
                                      baseImage, strokeWidth, FALSE)[i]
                             = Ink(annotations[k].color)

C13_Witness ==
    /\ lastOp = "text"
    /\ Len(annotations) = 2
    /\ Opaque(annotations[1])
    /\ annotations[1].color # annotations[2].color
    /\ \E i \in PixIdx :
           /\ Covers(annotations[1], i) /\ Covers(annotations[2], i)
           /\ surface[i] = Ink(annotations[2].color)

C15_UndoIffNonEmpty ==
    (baseImage # NoImage \/ lastOp = "back") =>
        (undoBtnDisabled <=> annotations = << >>)

\* C16: confirming the text prompt with text that is non-empty after
\* trimming appends exactly one text annotation, anchored at the click that
\* opened the prompt and with font size strokeWidth*5; confirming empty or
\* whitespace-only text, or cancelling the prompt (Cancel or Escape),
\* appends nothing.
C16_TextCommit ==
    [][/\ (lastOp' \in {"text", "textdrop"} /\ Trim(lastRaw') # << >>) =>
            /\ Front(annotations') = annotations
            /\ Len(annotations') = Len(annotations) + 1
            /\ Last(annotations').tool = "text"
            /\ Last(annotations').x = tempTextX
            /\ Last(annotations').y = tempTextY
            /\ Last(annotations').fontSize = strokeWidth * 5
       /\ (\/ lastOp' \in {"text", "textdrop"} /\ Trim(lastRaw') = << >>
           \/ lastOp' \in {"cancel", "escape"}) =>
            annotations' = annotations]_vars

C16_Witness ==
    /\ lastOp = "text"
    /\ lastRaw # Trim(lastRaw)
    /\ Len(annotations) = Len(prevAnnotations) + 1
    /\ Last(annotations).tool = "text"
    /\ Last(annotations).x = tempTextX
    /\ Last(annotations).fontSize = WideStrokeWidth * FontScale

\* Does the text t hold no markup character: no '<', no '>', and no '&'
\* other than the first character of &amp; &lt; or &gt; ?
NoRawMarkup(t) ==
    \A j \in DOMAIN t :
        /\ t[j] \notin {"<", ">"}
        /\ t[j] = "&" =>
               \/ /\ j + 3 <= Len(t)
                  /\ SubSeq(t, j + 1, j + 3) \in {<<"l", "t", ";">>,
                                                  <<"g", "t", ";">>}
               \/ /\ j + 4 <= Len(t)
                  /\ SubSeq(t, j + 1, j + 4) = <<"a", "m", "p", ";">>

\* C17: no text annotation of the store holds raw markup: its text has no
\* unescaped '<', '>' or '&'.
C17_StoredTextEscaped ==
    \A k \in DOMAIN annotations :
        "text" \in DOMAIN annotations[k] => NoRawMarkup(annotations[k].text)

C17_Witness ==
    /\ lastOp = "text"
    /\ \E j \in DOMAIN lastRaw : lastRaw[j] \in {"<", ">", "&"}
    /\ Last(annotations).text # lastRaw
    /\ NoRawMarkup(Last(annotations).text)

\* C18: Escape ends a drag without appending an annotation, and a
\* pointer-up or pointer-leave commits only when a drag is in progress, so
\* none that follows Escape without a new pointer-down commits anything.
C18_EscapeAborts ==
    [][/\ lastOp' = "escape" => (~isDrawing' /\ annotations' = annotations)
       /\ ~isDrawing => (lastOp' # "commit" /\ lastOp' # "drop")]_vars

C18_Witness ==
    /\ lastOp = "escape"
    /\ ~isDrawing
    /\ baseImage # NoImage
    /\ annotations = << >>
    /\ surface # DrawImage(baseImage)

\* C19: download and share change nothing of the editor: the store, the
\* base image, the surface, the gesture state, the text prompt and the
\* style settings are after the export what they were before.
C19_ExportFrame ==
    [][lastOp' = "export" =>
        UNCHANGED <<annotations, baseImage, surface, isDrawing, startX,
                    startY, tempBlurBackup, textVars, styleVars,
                    undoBtnDisabled, editorHidden, loading>>]_vars

C19_Witness ==
    /\ lastOp = "export"
    /\ annotations # << >>
    /\ surface # redrawCanvas(surface, annotations, baseImage, strokeWidth, FALSE)

\* C20: whenever no drag is in progress, the surface an export returns is
\* the recomposite of the base image and the store in commit order.
C20_ExportIsRecomposite ==
    (lastOp = "export" /\ ~isDrawing) =>
        surface = redrawCanvas(surface, annotations, baseImage, strokeWidth, FALSE)

\* C21: the snapshot of every blur annotation of the store covers exactly
\* the annotation's draw rectangle clamped to the surface: it holds a pixel
\* if and only if the pixel lies in that rectangle.
C21_SnapshotIsDrawRect ==
    \A k \in DOMAIN annotations :
        (/\ annotations[k].tool = "blur"
         /\ annotations[k].originalImageData # NoData)
        => \A i \in PixIdx :
               i \in DOMAIN annotations[k].originalImageData
                   <=> InSafeRect(annotations[k], i)

\* C22: the snapshot a blur commit stores was captured before the
\* pixelation filter of that commit wrote any pixel: it is the canvas as
\* a pointer-down captured it, held unchanged until the commit.
C22_SnapshotBeforeFilter ==
    [][/\ (lastOp' = "down" /\ currentTool = "blur") =>
            tempBlurBackup' = surface
       /\ (lastOp' \notin {"down", "commit", "drop"}) =>
            tempBlurBackup' = tempBlurBackup
       /\ (lastOp' = "commit" /\ Last(annotations').tool = "blur") =>
            Last(annotations').originalImageData = tempBlurBackup]_vars

C22_Witness ==
    /\ lastOp = "commit"
    /\ Last(annotations).tool = "blur"
    /\ ~caught
    /\ Last(annotations).originalImageData # NoData
    /\ Last(annotations).originalImageData # surface
    /\ Last(annotations).originalImageData = preGesture

\* C23: undo() on a non-empty store removes the last annotation and leaves
\* the recomposite of the base image and the remaining annotations on the
\* surface, whatever the tool of the removed annotation (no pixel operation
\* failing).
C23_UndoPopsAndRecomposites ==
    (lastOp = "undo" /\ ~caught) =>
        /\ prevAnnotations # << >>
        /\ annotations = Front(prevAnnotations)
        /\ surface = redrawCanvas(surface, annotations, baseImage,
                                  strokeWidth, FALSE)

C23_Witness ==
    /\ lastOp = "undo"
    /\ ~caught
    /\ Last(prevAnnotations).tool = "blur"
    /\ Last(prevAnnotations).originalImageData # NoData
    /\ Len(annotations) = 1
    /\ surface # Last(prevAnnotations).originalImageData
    /\ surface # DrawImage(baseImage)

\* Does the pixel i overlap the drag rectangle of the annotation a?
OverlapsDrag(a, i) ==
    /\ Px(PX(i)) < Max(a.startX, a.endX)
    /\ Px(PX(i) + 1) > Min(a.startX, a.endX)
    /\ Px(PY(i)) < Max(a.startY, a.endY)
    /\ Px(PY(i) + 1) > Min(a.startY, a.endY)

\* C24: the filter of a blur commit changes no pixel outside the drag
\* rectangle, also when the rectangle extends past an edge of the surface.
C24_BlurStaysInDragRect ==
    [][(lastOp' = "commit" /\ Last(annotations').tool = "blur") =>
        \A i \in PixIdx :
            surface'[i] # surface[i] => OverlapsDrag(Last(annotations'), i)]_vars

\* C25: a pointer-up or pointer-leave during a drag ends the drag (isDrawing
\* false, pending blur snapshot released) whether an annotation was appended
\* or the drag was dropped, and the corners of an appended annotation are
\* the pointer-down point and the release point.
C25_PointerUpEndsDrag ==
    [][lastOp' \in {"commit", "drop"} =>
        /\ isDrawing
        /\ ~isDrawing'
        /\ tempBlurBackup' = NoData
        /\ lastOp' = "commit" =>
               /\ Last(annotations').startX = startX
               /\ Last(annotations').startY = startY
               /\ <<Last(annotations').endX, Last(annotations').endY>>
                      = lastRaw']_vars

C25_Witness ==
    /\ lastOp = "drop"
    /\ currentTool = "blur"
    /\ ~isDrawing
    /\ tempBlurBackup = NoData
    /\ annotations = prevAnnotations

\* C26: a pointer-down with the text tool does not start a drag: after the
\* handler isDrawing is false and the prompt is open with the click point
\* as anchor; while isDrawing is false no pointer-move or pointer-up acts.
C26_TextClickOpensPrompt ==
    [][/\ (lastOp' = "down" /\ currentTool = "text") =>
            /\ ~isDrawing'
            /\ textModalOpen'
            /\ <<tempTextX', tempTextY'>> = lastRaw'
       /\ ~isDrawing => lastOp' \notin {"move", "commit", "drop"}]_vars

C26_Witness ==
    /\ lastOp = "down"
    /\ currentTool = "text"
    /\ ~isDrawing
    /\ textModalOpen
    /\ <<tempTextX, tempTextY>> = Far

\* C27: a pointer-move never changes the store or the base image: during a
\* drag it recomposites and draws the preview of the current tool, and
\* without a drag it does nothing.
C27_MoveFrame ==
    [][lastOp' = "move" =>
        /\ isDrawing
        /\ annotations' = annotations
        /\ baseImage' = baseImage
        /\ surface' = DrawPreview(
                          redrawCanvas(surface, annotations, baseImage,
                                       strokeWidth, caught'),
                          currentTool, startX, startY, lastRaw'[1],
                          lastRaw'[2], currentColor, strokeWidth)]_vars

C27_Witness ==
    /\ lastOp = "move"
    /\ isDrawing
    /\ annotations # << >>
    /\ annotations = prevAnnotations
    /\ surface # redrawCanvas(surface, annotations, baseImage, strokeWidth,
                              FALSE)

\* C28: an annotation that stays in the store is never modified: every
\* step leaves each position that the store has before and after with the
\* same record (tool, coordinates, colour, stroke width), and a drag
\* annotation is stored with the raw corners, not normalised.
C28_StoredAnnotationsFrozen ==
    [][/\ \A k \in DOMAIN annotations \cap DOMAIN annotations' :
              annotations'[k] = annotations[k]
       /\ lastOp' = "commit" =>
              /\ Last(annotations').startX = startX
              /\ Last(annotations').endX = lastRaw'[1]
              /\ Last(annotations').startY = startY
              /\ Last(annotations').endY = lastRaw'[2]]_vars

C28_Witness ==
    /\ lastOp = "style"
    /\ Len(annotations) = 2
    /\ annotations[1].color # currentColor
    /\ "startX" \in DOMAIN annotations[2]
    /\ annotations[2].strokeWidth # strokeWidth
    /\ annotations[2].startX > annotations[2].endX

\* C29: when the pixel operation of a blur commit throws, the blur
\* annotation is recorded all the same and every pixel of the target
\* rectangle is left under a flat translucent overlay.
C29_FailedBlurLeavesOverlay ==
    (lastOp = "commit" /\ caught) =>
        /\ Len(annotations) = Len(prevAnnotations) + 1
        /\ Last(annotations).tool = "blur"
        /\ \A i \in PixIdx :
               InSafeRect(Last(annotations), i) => surface[i][1] = "mix"

C31_LoadResetsGesture ==
    lastOp = "load" =>
        /\ annotations = << >>
        /\ ~isDrawing
        /\ tempBlurBackup = NoData

\* C36: whenever the last pending image load completes, the base image is
\* the image of the load requested last, whatever the order in which the
\* pending loads completed.
C36_LastRequestedWins ==
    [][(lastOp' = "load" /\ loading' = << >>) =>
        baseImage' = lastRequested]_vars

\* C34: a drag made by touch stores defined numbers: no coordinate of a
\* stored drag annotation is NaN, as for a mouse drag over the same points.
C34_TouchCoordinatesDefined ==
    \A k \in DOMAIN annotations :
        "endX" \in DOMAIN annotations[k] =>
            /\ ~IsNaN(annotations[k].startX)
            /\ ~IsNaN(annotations[k].startY)
            /\ ~IsNaN(annotations[k].endX)
            /\ ~IsNaN(annotations[k].endY)

\* C35: a gesture appends at most one annotation: a release (mouseup,
\* mouseleave, touchend) ends the drag and appends at most one annotation,
\* a release without a drag appends nothing, and only a pointer-down
\* starts a drag.
C35_OneAnnotationPerGesture ==
    [][/\ lastOp' \in {"commit", "drop", "norelease"} =>
            /\ ~isDrawing'
            /\ Len(annotations') <= Len(annotations) + 1
       /\ (~isDrawing /\ lastOp' \in {"commit", "drop", "norelease"}) =>
            annotations' = annotations
       /\ (~isDrawing /\ isDrawing') => lastOp' = "down"]_vars

C35_Witness ==
    /\ lastOp = "norelease"
    /\ ~isDrawing
    /\ Len(annotations) = 1
    /\ annotations = prevAnnotations
    /\ ~editorHidden

\* C37: undo() on an empty store changes nothing: the store, the base
\* image, the surface, the gesture state and every other variable of the
\* program are as before, and the handler returns.
C37_EmptyUndoNoOp ==
    [][(annotations = << >> /\ lastOp' \in {"undo", "noundo"}) =>
          /\ lastOp' = "noundo"
          /\ UNCHANGED progVars]_vars

C37_Witness ==
    /\ lastOp = "noundo"
    /\ annotations = << >>
    /\ isDrawing
    /\ surface # redrawCanvas(surface, annotations, baseImage, strokeWidth,
                              FALSE)

\* Does the colour v show the image pixel i itself, maybe under translucent
\* paint?
RECURSIVE OwnPixel(_, _)
OwnPixel(v, i) ==
    \/ v[1] = "px" /\ v[3] = i
    \/ v[1] = "mix" /\ OwnPixel(v[4], i)

\* Do the pixels img hold the pixelation of the blur annotation a: no
\* pixel of its rectangle, the block origins apart, shows its own image
\* pixel?
Pixelated(img, a) ==
    \A i \in PixIdx :
        (InSafeRect(a, i) /\ i # BlockOrigin(a, i, PixelSize(a.strokeWidth)))
            => ~OwnPixel(img[i], i)

\* C32: in the second revision undo() of a blur annotation removes the
\* store entry and leaves the pixelation on the surface, whether or not the
\* base-image update of the blur has completed.
C32_BlurUndoKeepsPixels ==
    [][(/\ lastOp' = "undo"
        /\ Last(annotations).tool = "blur"
        /\ ReachesPixels(Last(annotations))) =>
            /\ annotations' = Front(annotations)
            /\ Pixelated(surface', Last(annotations))]_vars

\* C33: in the second revision, when no base-image update started by a blur
\* commit is pending, the base image holds the pixelation of every blur
\* annotation of the store.
C33_NoBlurLost ==
    (/\ baseImage # NoData
     /\ \A j \in DOMAIN loading : loading[j].kind # "blur") =>
        \A k \in DOMAIN annotations :
            ReachesPixels(annotations[k]) => Pixelated(baseImage, annotations[k])

\* The block origins of a rectangle of w x h pixels cut into blocks of side
\* p.
Blocks(w, h, p) ==
    {<<y, x>> : y \in {v \in 0..(h - 1) : v % p = 0},
                x \in {v \in 0..(w - 1) : v % p = 0}}

\* C38: the pixelation loops terminate for every clamped rectangle and
\* every positive stroke width, having visited every block exactly once
\* (and written every pixel of the rectangle once).
C38_FilterTerminates ==
    <>(/\ filter.pc = "done"
       /\ {filter.visited[k] : k \in DOMAIN filter.visited} =
              Blocks(filter.safeWidth, filter.safeHeight, filter.pixelSize)
       /\ Len(filter.visited) =
              Cardinality(Blocks(filter.safeWidth, filter.safeHeight,
                                 filter.pixelSize))
       /\ filter.written = filter.safeWidth * filter.safeHeight)

C38_Witness ==
    /\ filter # NoData
    /\ filter.pc = "done"
    /\ filter.safeWidth = MaxFilterWidth
    /\ filter.safeHeight = MaxFilterHeight
    /\ filter.pixelSize = MinPixelSize
    /\ Len(filter.visited) = 6

====
